---------------------------- MODULE Spec2Model ----------------------------
(***************************************************************************)
(* Learning-Management-Backend: the request authorization pipeline         *)
(* (middlewares/auth.middleware.js) and the course / lecture mutation      *)
(* workflow (the course controller).                                       *)
(*                                                                         *)
(* Four specifications share the variables:                                *)
(*   SpecAuth    one request walking a route's guard chain                 *)
(*               isLoggedIn -> authorizeRoles -> authorizeSubscribers ->   *)
(*               handler;                                                  *)
(*   Spec        concurrent admitted requests running the course handlers  *)
(*               against the datastore, one step per awaited I/O call (the *)
(*               code between two awaits runs without interleaving on the  *)
(*               single JS thread);                                        *)
(*   SpecUpload  the handlers that take a file: the staging directory, the *)
(*               upload to the asset host and the purge after a failure;   *)
(*   SpecLecture one request at a time adding a lecture with its video and *)
(*               removing it.                                              *)
(***************************************************************************)
EXTENDS Integers, Sequences, FiniteSets, TLC

VARIABLES
    areq,           \* SpecAuth: the request in the guard chain
    reqs,           \* Spec: the in-flight handler invocations, per slot
    courses,        \* the datastore's Course collection: id -> document
    nextCourseId,   \* next _id the datastore hands to Course.create
    nextLectureId,  \* next _id handed to a pushed lecture subdocument
    nextFileId,     \* next file name the upload middleware stages
    uploads,        \* the files in the staging directory uploads/
    pendingRm       \* fs.rm calls issued and not awaited, still in flight

vars == <<areq, reqs, courses, nextCourseId, nextLectureId, nextFileId,
          uploads, pendingRm>>

courseVars == <<reqs, courses, nextCourseId, nextLectureId, nextFileId,
                uploads, pendingRm>>

----------------------------------------------------------------------------
(* Errors: ApiError(message, statusCode), and errors thrown by libraries,  *)
(* which carry no statusCode.                                              *)

NoStatus == 0

NoErr == [name |-> "none", message |-> "", statusCode |-> NoStatus]

ApiError(message, statusCode) ==
    [name |-> "ApiError", message |-> message, statusCode |-> statusCode]

LibError(name) == [name |-> name, message |-> name, statusCode |-> NoStatus]

----------------------------------------------------------------------------
(* Session claims and tokens                                               *)

Roles == {"ADMIN", "LEARNER", "undefined"}
Statuses == {"active", "inactive", "undefined"}

Claims == [truthy : {TRUE}, role : Roles, status : Statuses]
FalsyPayload == [truthy |-> FALSE, role |-> "undefined", status |-> "undefined"]
Payloads == Claims \cup {FalsyPayload}

NoUser == [set |-> FALSE, role |-> "undefined", status |-> "undefined"]
UserOf(decoded) == [set |-> TRUE, role |-> decoded.role, status |-> decoded.status]

TokenKinds == {"malformed", "badSignature", "expired", "valid"}
Tokens == [present : {TRUE}, kind : TokenKinds, payload : Payloads]
NoToken == [present |-> FALSE, kind |-> "valid", payload |-> FalsyPayload]
Cookies == Tokens \cup {NoToken}

(* jwt.verify(token, secret): returns the payload of a well-formed, rightly *)
(* signed, unexpired token and throws otherwise.                            *)
jwtVerify(token) ==
    CASE token.kind = "malformed" ->
           [threw |-> TRUE, error |-> LibError("JsonWebTokenError"),
            decoded |-> FalsyPayload]
      [] token.kind = "badSignature" ->
           [threw |-> TRUE, error |-> LibError("JsonWebTokenError"),
            decoded |-> FalsyPayload]
      [] token.kind = "expired" ->
           [threw |-> TRUE, error |-> LibError("TokenExpiredError"),
            decoded |-> FalsyPayload]
      [] OTHER ->
           [threw |-> FALSE, error |-> NoErr, decoded |-> token.payload]


----------------------------------------------------------------------------
(* The guard chain of a route.  The routing layer mounts isLoggedIn first   *)
(* and then any of authorizeRoles(...roles) and authorizeSubscribers before *)
(* the handler.                                                             *)

RoleArgs == {{"ADMIN"}, {"LEARNER"}, {"ADMIN", "LEARNER"}}

Chains == { <<"isLoggedIn">>,
            <<"isLoggedIn", "authorizeRoles">>,
            <<"isLoggedIn", "authorizeSubscribers">>,
            <<"isLoggedIn", "authorizeRoles", "authorizeSubscribers">> }

Routes == [chain : Chains, roles : RoleArgs]

IdleRequest ==
    [stage |-> "idle", rest |-> <<>>, roles |-> {}, cookies |-> NoToken,
     user |-> NoUser, err |-> NoErr, ran |-> <<>>]

(* next(): control passes to the following middleware of the chain, or to   *)
(* the handler after the last one.                                          *)
PassOn(r) ==
    [r EXCEPT !.stage = IF r.rest = <<>> THEN "handler" ELSE Head(r.rest),
              !.rest = IF r.rest = <<>> THEN <<>> ELSE Tail(r.rest),
              !.ran = Append(r.ran, r.stage)]

(* next(err), or a rejection caught by asyncHandler: the rest of the chain  *)
(* and the handler are skipped and err reaches the error boundary.          *)
Fail(r, e) ==
    [r EXCEPT !.stage = "error", !.err = e, !.ran = Append(r.ran, r.stage)]

(* isLoggedIn without the check of the cookie's presence.                   *)
isLoggedInCookieOptional(token) ==
    IF ~token.present
      THEN [err |-> NoErr, user |-> NoUser]
      ELSE LET v == jwtVerify(token) IN
           IF v.threw THEN [err |-> v.error, user |-> NoUser]
           ELSE IF ~v.decoded.truthy
             THEN [err |-> ApiError("Unauthorized, please login to continue", 401),
                   user |-> NoUser]
             ELSE [err |-> NoErr, user |-> UserOf(v.decoded)]

(* isLoggedIn's body: the error it ends with (NoErr: it called next()) and  *)
(* the value it leaves in req.user.                                         *)
isLoggedInOutcome(token) ==
    IF ~token.present
      THEN [err |-> ApiError("Unauthorized, please login to continue", 401),
            user |-> NoUser]
      ELSE LET v == jwtVerify(token) IN
           IF v.threw THEN [err |-> v.error, user |-> NoUser]
           ELSE IF ~v.decoded.truthy
             THEN [err |-> ApiError("Unauthorized, please login to continue", 401),
                   user |-> NoUser]
             ELSE [err |-> NoErr, user |-> UserOf(v.decoded)]

(* authorizeRoles letting ADMIN through whatever the roles.                 *)
authorizeRolesAdminBypass(roles, user) ==
    IF user.role \notin roles /\ user.role # "ADMIN"
      THEN ApiError("You do not have permission to view this route", 403)
      ELSE NoErr

(* authorizeRoles(...roles): the error it ends with.                        *)
authorizeRolesOutcome(roles, user) ==
    IF user.role \notin roles
      THEN ApiError("You do not have permission to view this route", 403)
      ELSE NoErr

(* authorizeSubscribers with || for &&.                                     *)
authorizeSubscribersEither(user) ==
    IF user.role # "ADMIN" \/ user.status # "active"
      THEN ApiError("Please subscribe to access this route.", 403)
      ELSE NoErr

(* authorizeSubscribers: the error it ends with.                            *)
authorizeSubscribersOutcome(user) ==
    IF user.role # "ADMIN" /\ user.status # "active"
      THEN ApiError("Please subscribe to access this route.", 403)
      ELSE NoErr

Receive ==
    /\ areq.stage \in {"idle", "done", "error"}
    /\ \E c \in Cookies, route \in Routes :
         areq' = [stage |-> Head(route.chain), rest |-> Tail(route.chain),
                  roles |-> route.roles, cookies |-> c,
                  user |-> NoUser, err |-> NoErr, ran |-> <<>>]
    /\ UNCHANGED courseVars

isLoggedIn ==
    /\ areq.stage = "isLoggedIn"
    /\ LET o == isLoggedInOutcome(areq.cookies) IN
         areq' = IF o.err # NoErr
                   THEN Fail(areq, o.err)
                   ELSE PassOn([areq EXCEPT !.user = o.user])
    /\ UNCHANGED courseVars

authorizeRoles ==
    /\ areq.stage = "authorizeRoles"
    /\ LET e == authorizeRolesOutcome(areq.roles, areq.user) IN
         areq' = IF e # NoErr THEN Fail(areq, e) ELSE PassOn(areq)
    /\ UNCHANGED courseVars

authorizeSubscribers ==
    /\ areq.stage = "authorizeSubscribers"
    /\ LET e == authorizeSubscribersOutcome(areq.user) IN
         areq' = IF e # NoErr THEN Fail(areq, e) ELSE PassOn(areq)
    /\ UNCHANGED courseVars

(* The protected handler is invoked.                                        *)
Handler ==
    /\ areq.stage = "handler"
    /\ areq' = [areq EXCEPT !.stage = "done", !.ran = Append(areq.ran, "handler")]
    /\ UNCHANGED courseVars

NextAuth ==
    \/ Receive
    \/ isLoggedIn
    \/ authorizeRoles
    \/ authorizeSubscribers
    \/ Handler

----------------------------------------------------------------------------
(* The course / lecture mutation workflow                                   *)

MaxCourses == 1      \* course ids the datastore hands out
MaxLectures == 2     \* lecture ids handed out
MaxFiles == 2        \* files the upload middleware stages

Slots == {1, 2}                      \* concurrent handler invocations
CourseIds == 1 .. MaxCourses
LectureIds == 1 .. MaxLectures
FileIds == 1 .. MaxFiles

CreateFields == {"title", "description", "category", "createdBy"}
LectureFields == {"title", "description"}

(* The bodies sent: complete, one field missing, or empty.                  *)
CreateBodies ==
    {CreateFields, {}} \cup {CreateFields \ {f} : f \in CreateFields}
LectureBodies ==
    {LectureFields, {}} \cup {LectureFields \ {f} : f \in LectureFields}

(* An asset reference {public_id, secure_url}: empty, or the one a          *)
(* successful upload returned (both fields are set together).               *)
NoAsset == "empty"
Uploaded == "uploaded"

(* A Course document.                                                       *)
NoCourse ==
    [exists |-> FALSE, thumbnail |-> NoAsset, lectures |-> <<>>,
     numberOfLectures |-> 0]

(* Course.create({title, description, category, createdBy}): the schema's   *)
(* defaults for the fields the handler does not pass.                       *)
NewCourse ==
    [exists |-> TRUE, thumbnail |-> NoAsset, lectures |-> <<>>,
     numberOfLectures |-> 0]

(* An ObjectId rendered by toString(), and the lectureId of a query string: *)
(* the rendering of an id, some other text, or absent.                      *)
IdToString(i) == <<"oid", i>>
NoString == <<>>
QueryStrings == {IdToString(i) : i \in LectureIds} \cup {<<"text", 0>>, NoString}

(* req.query of removeLectureFromCourse: {courseId, lectureId}, 0 for an     *)
(* absent courseId.                                                         *)
RemoveQueries == ({0} \X {IdToString(1)}) \cup (CourseIds \X QueryStrings)

(* req.body of updateCourseById: the fields to $set.                        *)
NoUpdate == [hasCount |-> FALSE, count |-> 0]
UpdateBodies == {NoUpdate, [hasCount |-> TRUE, count |-> 1]}

(* A lecture subdocument: its _id and its asset reference.                  *)
NoLecture == [id |-> 0, asset |-> NoAsset]

NoRes == [status |-> NoStatus, err |-> NoErr]
Ok(status) == [status |-> status, err |-> NoErr]
Err(e) == [status |-> e.statusCode, err |-> e]

(* A handler invocation: the request's inputs (fields, id, lectureId,       *)
(* file), the handler's locals (doc: the course object, idx, dir: what is   *)
(* left of the readdir listing, lec: the lecture pushed or spliced) and the *)
(* response.  resolved is the lecture list findById returned, and stale     *)
(* records that the persist replaced a list other than that one.            *)
IdleSlot ==
    [op |-> "idle", pc |-> "idle", fields |-> {}, id |-> 0,
     lectureId |-> NoString, file |-> 0, doc |-> NoCourse,
     resolved |-> <<>>, idx |-> 0, lec |-> NoLecture, dir |-> {}, stale |-> FALSE,
     res |-> NoRes]

Init ==
    /\ areq = IdleRequest
    /\ reqs = [r \in Slots |-> IdleSlot]
    /\ courses = [c \in CourseIds |-> NoCourse]
    /\ nextCourseId = 1
    /\ nextLectureId = 1
    /\ nextFileId = 1
    /\ uploads = {}
    /\ pendingRm = {}

(* The datastore's persist of a resolved document: course.save() writes the *)
(* paths the handler modified, and the last write wins.                     *)
save(stored, doc, paths) ==
    [stored EXCEPT
       !.thumbnail = IF "thumbnail" \in paths THEN doc.thumbnail ELSE @,
       !.lectures = IF "lectures" \in paths THEN doc.lectures ELSE @,
       !.numberOfLectures =
           IF "numberOfLectures" \in paths THEN doc.numberOfLectures ELSE @]

(* course.lectures.push({title, description, lecture: lectureData});        *)
(* course.numberOfLectures = course.lectures.length                         *)
pushLecture(doc, lectureId, asset) ==
    LET lectures == Append(doc.lectures, [id |-> lectureId, asset |-> asset])
    IN [doc EXCEPT !.lectures = lectures, !.numberOfLectures = Len(lectures)]

(* findIndex answering the last position when no lecture matches.           *)
findIndexOrLast(lectures, lectureId) ==
    LET hits == {i \in 1 .. Len(lectures) :
                    IdToString(lectures[i].id) = lectureId}
    IN IF hits = {} THEN Len(lectures) ELSE CHOOSE i \in hits : \A j \in hits : i <= j

(* course.lectures.findIndex(l => l._id.toString() === lectureId.toString()) *)
(* 0 stands for JavaScript's -1, positions count from 1.                    *)
findIndex(lectures, lectureId) ==
    LET hits == {i \in 1 .. Len(lectures) :
                    IdToString(lectures[i].id) = lectureId}
    IN IF hits = {} THEN 0 ELSE CHOOSE i \in hits : \A j \in hits : i <= j

(* The splice without the update of numberOfLectures.                       *)
spliceLectureKeepCount(doc, idx) ==
    LET lectures == [i \in 1 .. (Len(doc.lectures) - 1) |->
                        IF i < idx THEN doc.lectures[i] ELSE doc.lectures[i + 1]]
    IN [doc EXCEPT !.lectures = lectures]

(* course.lectures.splice(lectureIndex, 1);                                 *)
(* course.numberOfLectures = course.lectures.length                         *)
spliceLecture(doc, idx) ==
    LET lectures == [i \in 1 .. (Len(doc.lectures) - 1) |->
                        IF i < idx THEN doc.lectures[i] ELSE doc.lectures[i + 1]]
    IN [doc EXCEPT !.lectures = lectures, !.numberOfLectures = Len(lectures)]

(* findByIdAndUpdate(id, {$set: req.body}): the body's fields replace the   *)
(* document's.                                                              *)
setFields(stored, body) ==
    [stored EXCEPT !.numberOfLectures = IF body.hasCount THEN body.count ELSE @]

(* new ApiError(JSON.stringify(error) || 'File not uploaded, ...', 400)      *)
UploadFailed == ApiError("JSON.stringify(error)", 400)

(* !title || !description || !category: the check without createdBy.        *)
createCourseInvalidNoCreator(fields) ==
    \/ "title" \notin fields
    \/ "description" \notin fields
    \/ "category" \notin fields

(* !title || !description || !category || !createdBy                        *)
createCourseInvalid(fields) ==
    \/ "title" \notin fields
    \/ "description" \notin fields
    \/ "category" \notin fields
    \/ "createdBy" \notin fields

(* !title || !description                                                   *)
addLectureInvalid(fields) ==
    \/ "title" \notin fields
    \/ "description" \notin fields

(* A request as it reaches its handler.  The upload middleware has staged   *)
(* its file, if it carries one, in uploads/ under a fresh name.             *)
Request(op, fields, id, lectureId, withFile) ==
    [IdleSlot EXCEPT !.op = op, !.pc = "start", !.fields = fields, !.id = id,
                     !.lectureId = lectureId,
                     !.file = IF withFile THEN nextFileId ELSE 0]

Staged(withFile) ==
    /\ withFile => nextFileId <= MaxFiles
    /\ uploads' = IF withFile THEN uploads \cup {nextFileId} ELSE uploads
    /\ nextFileId' = IF withFile THEN nextFileId + 1 ELSE nextFileId

(* The response is sent (res.status(..).json(..), or next(err)) and the     *)
(* handler's locals are dropped.                                            *)
Finish(q, res) ==
    [q EXCEPT !.pc = "done", !.res = res, !.file = 0, !.doc = NoCourse,
              !.resolved = <<>>, !.idx = 0, !.dir = {}]

(* A request is handled in the first slot that holds no request in flight. *)
Free(r) ==
    /\ reqs[r].pc \in {"idle", "done"}
    /\ \A o \in Slots : o < r => reqs[o].pc \notin {"idle", "done"}

(* Requests in flight that will still push a lecture.                       *)
PendingPushes ==
    {r \in Slots : reqs[r].op = "addLecture" /\ reqs[r].pc = "upload"}

(* createCourse up to its first await's result: the validation and          *)
(* Course.create.  Without a file the handler goes on to course.save().     *)
createCourse(r, bodies, files) ==
    /\ Free(r)
    /\ \E fields \in bodies, withFile \in files :
         LET q == Request("createCourse", fields, 0, NoString, withFile) IN
         /\ Staged(withFile)
         /\ \/ /\ createCourseInvalid(fields)
               /\ reqs' = [reqs EXCEPT ![r] =
                      Finish(q, Err(ApiError("All fields are required", 400)))]
               /\ UNCHANGED <<courses, nextCourseId>>
            \/ /\ ~createCourseInvalid(fields)
               /\ nextCourseId <= MaxCourses
               /\ courses' = [courses EXCEPT ![nextCourseId] = NewCourse]
               /\ nextCourseId' = nextCourseId + 1
               /\ reqs' = [reqs EXCEPT ![r] =
                      [q EXCEPT !.id = nextCourseId, !.doc = NewCourse,
                                !.pc = IF withFile THEN "upload" ELSE "save"]]
    /\ UNCHANGED <<areq, nextLectureId, pendingRm>>

(* createCourse: cloudinary's upload of the thumbnail settles: with a       *)
(* result, with none, or rejected.                                          *)
createCourseUpload(r) ==
    LET q == reqs[r] IN
    /\ q.op = "createCourse" /\ q.pc = "upload"
    /\ \/ /\ reqs' = [reqs EXCEPT ![r] =
                 [q EXCEPT !.doc.thumbnail = Uploaded, !.pc = "save"]]
          /\ pendingRm' = pendingRm \cup {q.file}
       \/ /\ reqs' = [reqs EXCEPT ![r] = [q EXCEPT !.pc = "save"]]
          /\ pendingRm' = pendingRm \cup {q.file}
       \/ /\ reqs' = [reqs EXCEPT ![r] = [q EXCEPT !.pc = "readdir"]]
          /\ UNCHANGED pendingRm
    /\ UNCHANGED <<areq, courses, nextCourseId, nextLectureId, nextFileId, uploads>>

(* The catch block of a failed upload: fs.readdir('uploads/') settles.      *)
purgeReaddir(r) ==
    LET q == reqs[r] IN
    /\ q.op \in {"createCourse", "addLecture"} /\ q.pc = "readdir"
    /\ reqs' = [reqs EXCEPT ![r] =
           IF uploads = {}
             THEN Finish(q, Err(UploadFailed))
             ELSE [q EXCEPT !.dir = uploads, !.pc = "unlink"]]
    /\ UNCHANGED <<areq, courses, nextCourseId, nextLectureId, nextFileId,
                   uploads, pendingRm>>

(* The catch block's loop: one fs.unlink settles.  It rejects (ENOENT) when *)
(* the file is gone, and the rejection leaves the catch block.              *)
purgeUnlink(r) ==
    LET q == reqs[r] IN
    /\ q.op \in {"createCourse", "addLecture"} /\ q.pc = "unlink"
    /\ \E f \in q.dir :
         \/ /\ f \in uploads
            /\ uploads' = uploads \ {f}
            /\ reqs' = [reqs EXCEPT ![r] =
                   IF q.dir = {f}
                     THEN Finish(q, Err(UploadFailed))
                     ELSE [q EXCEPT !.dir = q.dir \ {f}]]
         \/ /\ f \notin uploads
            /\ UNCHANGED uploads
            /\ reqs' = [reqs EXCEPT ![r] = Finish(q, Err(LibError("ENOENT")))]
    /\ UNCHANGED <<areq, courses, nextCourseId, nextLectureId, nextFileId, pendingRm>>

(* createCourse: course.save() settles and the response is sent.            *)
createCourseSave(r) ==
    LET q == reqs[r] IN
    /\ q.op = "createCourse" /\ q.pc = "save"
    /\ courses' = [courses EXCEPT ![q.id] = save(@, q.doc, {"thumbnail"})]
    /\ reqs' = [reqs EXCEPT ![r] = Finish(q, Ok(201))]
    /\ UNCHANGED <<areq, nextCourseId, nextLectureId, nextFileId, uploads, pendingRm>>

(* An fs.rm the handler did not await settles.                              *)
fsRm(f) ==
    /\ f \in pendingRm
    /\ pendingRm' = pendingRm \ {f}
    /\ uploads' = uploads \ {f}
    /\ UNCHANGED <<areq, reqs, courses, nextCourseId, nextLectureId, nextFileId>>

(* addLectureToCourseById up to its first await's result: the validation   *)
(* and Course.findById.  Without a file the handler pushes the lecture and  *)
(* goes on to course.save().                                                *)
addLectureToCourseById(r, bodies, files) ==
    /\ Free(r)
    /\ \E fields \in bodies, id \in CourseIds, withFile \in files :
         LET q == Request("addLecture", fields, id, NoString, withFile) IN
         /\ Staged(withFile)
         /\ \/ /\ addLectureInvalid(fields)
               /\ reqs' = [reqs EXCEPT ![r] =
                      Finish(q, Err(ApiError("Title and Description are required", 400)))]
               /\ UNCHANGED nextLectureId
            \/ /\ ~addLectureInvalid(fields)
               /\ ~courses[id].exists
               /\ reqs' = [reqs EXCEPT ![r] =
                      Finish(q, Err(ApiError("Invalid course id or course not found.", 400)))]
               /\ UNCHANGED nextLectureId
            \/ /\ ~addLectureInvalid(fields)
               /\ courses[id].exists
               /\ withFile
               /\ nextLectureId + Cardinality(PendingPushes) <= MaxLectures
               /\ reqs' = [reqs EXCEPT ![r] =
                      [q EXCEPT !.doc = courses[id], !.resolved = courses[id].lectures,
                                !.pc = "upload"]]
               /\ UNCHANGED nextLectureId
            \/ /\ ~addLectureInvalid(fields)
               /\ courses[id].exists
               /\ ~withFile
               /\ nextLectureId + Cardinality(PendingPushes) <= MaxLectures
               /\ reqs' = [reqs EXCEPT ![r] =
                      [q EXCEPT !.doc = pushLecture(courses[id], nextLectureId, NoAsset),
                                !.resolved = courses[id].lectures,
                                !.lec = [id |-> nextLectureId, asset |-> NoAsset],
                                !.pc = "save"]]
               /\ nextLectureId' = nextLectureId + 1
    /\ UNCHANGED <<areq, courses, nextCourseId, pendingRm>>

(* addLectureToCourseById: cloudinary's upload of the video settles: with a *)
(* result, with none, or rejected.                                          *)
addLectureUpload(r) ==
    LET q == reqs[r] IN
    /\ q.op = "addLecture" /\ q.pc = "upload"
    /\ \/ /\ reqs' = [reqs EXCEPT ![r] =
                 [q EXCEPT !.doc = pushLecture(q.doc, nextLectureId, Uploaded),
                           !.lec = [id |-> nextLectureId, asset |-> Uploaded],
                           !.pc = "save"]]
          /\ nextLectureId' = nextLectureId + 1
          /\ pendingRm' = pendingRm \cup {q.file}
       \/ /\ reqs' = [reqs EXCEPT ![r] =
                 [q EXCEPT !.doc = pushLecture(q.doc, nextLectureId, NoAsset),
                           !.lec = [id |-> nextLectureId, asset |-> NoAsset],
                           !.pc = "save"]]
          /\ nextLectureId' = nextLectureId + 1
          /\ pendingRm' = pendingRm \cup {q.file}
       \/ /\ reqs' = [reqs EXCEPT ![r] = [q EXCEPT !.pc = "readdir"]]
          /\ UNCHANGED <<nextLectureId, pendingRm>>
    /\ UNCHANGED <<areq, courses, nextCourseId, nextFileId, uploads>>

(* addLectureToCourseById with a persist that rejects a copy resolved       *)
(* before the stored list changed.                                          *)
addLectureSaveVersioned(r) ==
    LET q == reqs[r] IN
    /\ q.op = "addLecture" /\ q.pc = "save"
    /\ IF courses[q.id].lectures = q.resolved
         THEN /\ courses' = [courses EXCEPT ![q.id] =
                     save(@, q.doc, {"lectures", "numberOfLectures"})]
              /\ reqs' = [reqs EXCEPT ![r] = Finish(q, Ok(200))]
         ELSE /\ UNCHANGED courses
              /\ reqs' = [reqs EXCEPT ![r] = Finish(q, Err(LibError("VersionError")))]
    /\ UNCHANGED <<areq, nextCourseId, nextLectureId, nextFileId, uploads, pendingRm>>

(* addLectureToCourseById: course.save() settles and the response is sent.  *)
addLectureSave(r) ==
    LET q == reqs[r] IN
    /\ q.op = "addLecture" /\ q.pc = "save"
    /\ courses' = [courses EXCEPT ![q.id] =
           save(@, q.doc, {"lectures", "numberOfLectures"})]
    /\ reqs' = [reqs EXCEPT ![r] =
           Finish([q EXCEPT !.stale = (courses[q.id].lectures # q.resolved)],
                  Ok(200))]
    /\ UNCHANGED <<areq, nextCourseId, nextLectureId, nextFileId, uploads, pendingRm>>

(* removeLectureFromCourse up to its first await's result: the checks of    *)
(* the query, Course.findById and the search for the lecture.               *)
removeLectureFromCourse(r) ==
    /\ Free(r)
    /\ \E query \in RemoveQueries :
         LET id == query[1]
             lectureId == query[2]
             q == Request("removeLecture", {}, id, lectureId, FALSE)
             idx == findIndex(courses[id].lectures, lectureId)
         IN
         \/ /\ id = 0
            /\ reqs' = [reqs EXCEPT ![r] =
                   Finish(q, Err(ApiError("Course ID is required", 400)))]
         \/ /\ id # 0
            /\ lectureId = NoString
            /\ reqs' = [reqs EXCEPT ![r] =
                   Finish(q, Err(ApiError("Lecture ID is required", 400)))]
         \/ /\ id # 0
            /\ lectureId # NoString
            /\ ~courses[id].exists
            /\ reqs' = [reqs EXCEPT ![r] =
                   Finish(q, Err(ApiError("Invalid ID or Course does not exist.", 404)))]
         \/ /\ id # 0
            /\ lectureId # NoString
            /\ courses[id].exists
            /\ idx = 0
            /\ reqs' = [reqs EXCEPT ![r] =
                   Finish(q, Err(ApiError("Lecture does not exist.", 404)))]
         \/ /\ id # 0
            /\ lectureId # NoString
            /\ courses[id].exists
            /\ idx # 0
            /\ reqs' = [reqs EXCEPT ![r] =
                   [q EXCEPT !.doc = courses[id], !.resolved = courses[id].lectures,
                             !.idx = idx, !.pc = "destroy"]]
    /\ UNCHANGED <<areq, courses, nextCourseId, nextLectureId, nextFileId,
                   uploads, pendingRm>>

(* removeLectureFromCourse: cloudinary's destroy of the lecture's asset     *)
(* settles; a rejection ends the request.                                   *)
removeLectureDestroy(r) ==
    LET q == reqs[r] IN
    /\ q.op = "removeLecture" /\ q.pc = "destroy"
    /\ \/ reqs' = [reqs EXCEPT ![r] =
              [q EXCEPT !.doc = spliceLecture(q.doc, q.idx),
                        !.lec = q.doc.lectures[q.idx], !.pc = "save"]]
       \/ reqs' = [reqs EXCEPT ![r] = Finish(q, Err(LibError("CloudinaryError")))]
    /\ UNCHANGED <<areq, courses, nextCourseId, nextLectureId, nextFileId,
                   uploads, pendingRm>>

(* removeLectureFromCourse: course.save() settles and the response is sent. *)
removeLectureSave(r) ==
    LET q == reqs[r] IN
    /\ q.op = "removeLecture" /\ q.pc = "save"
    /\ courses' = [courses EXCEPT ![q.id] =
           save(@, q.doc, {"lectures", "numberOfLectures"})]
    /\ reqs' = [reqs EXCEPT ![r] =
           Finish([q EXCEPT !.stale = (courses[q.id].lectures # q.resolved)],
                  Ok(200))]
    /\ UNCHANGED <<areq, nextCourseId, nextLectureId, nextFileId, uploads, pendingRm>>

(* updateCourseById: Course.findByIdAndUpdate settles and the response is   *)
(* sent.                                                                    *)
updateCourseById(r) ==
    /\ Free(r)
    /\ \E id \in CourseIds, body \in UpdateBodies :
         LET q == Request("updateCourse", {}, id, NoString, FALSE) IN
         \/ /\ ~courses[id].exists
            /\ reqs' = [reqs EXCEPT ![r] =
                   Finish(q, Err(ApiError("Invalid course id or course not found.", 400)))]
            /\ UNCHANGED courses
         \/ /\ courses[id].exists
            /\ courses' = [courses EXCEPT ![id] = setFields(@, body)]
            /\ reqs' = [reqs EXCEPT ![r] = Finish(q, Ok(200))]
    /\ UNCHANGED <<areq, nextCourseId, nextLectureId, nextFileId, uploads, pendingRm>>

(* The datastore slice: every handler, for requests that carry no file.     *)
Next ==
    \E r \in Slots :
       \/ createCourse(r, {CreateFields, {}}, {FALSE})
       \/ createCourseSave(r)
       \/ addLectureToCourseById(r, LectureBodies, {FALSE})
       \/ addLectureSave(r)
       \/ removeLectureFromCourse(r)
       \/ removeLectureDestroy(r)
       \/ removeLectureSave(r)
       \/ updateCourseById(r)

Spec == Init /\ [][Next]_vars

(* The upload slice: the handlers that take a file, with and without one.   *)
NextUpload ==
    \/ \E r \in Slots :
         \/ createCourse(r, CreateBodies, BOOLEAN)
         \/ createCourseUpload(r)
         \/ createCourseSave(r)
         \/ addLectureToCourseById(r, {LectureFields}, {TRUE})
         \/ addLectureUpload(r)
         \/ addLectureSave(r)
         \/ purgeReaddir(r)
         \/ purgeUnlink(r)
    \/ \E f \in FileIds : fsRm(f)

SpecUpload == Init /\ [][NextUpload]_vars

(* The lecture slice: one request at a time, adding lectures with their     *)
(* video and removing them.                                                 *)
NextLecture ==
    \/ \E r \in {1} :
         \/ createCourse(r, {CreateFields}, {FALSE})
         \/ createCourseSave(r)
         \/ addLectureToCourseById(r, {LectureFields}, {TRUE})
         \/ addLectureUpload(r)
         \/ purgeReaddir(r)
         \/ purgeUnlink(r)
         \/ addLectureSave(r)
         \/ removeLectureFromCourse(r)
         \/ removeLectureDestroy(r)
         \/ removeLectureSave(r)
    \/ \E f \in FileIds : fsRm(f)

SpecLecture == Init /\ [][NextLecture]_vars

SpecAuth == Init /\ [][NextAuth]_vars

----------------------------------------------------------------------------
(* Properties of the guard chain (SpecAuth)                                 *)

Ran(name) == \E i \in 1 .. Len(areq.ran) : areq.ran[i] = name
LastRan == areq.ran[Len(areq.ran)]
Unauthorized == ApiError("Unauthorized, please login to continue", 401)
Forbidden(message) == ApiError(message, 403)

(* C1: a request without the token cookie is ended by isLoggedIn with the   *)
(* 401 error; no later middleware and no handler runs for it, and req.user  *)
(* is never set.                                                            *)
NoCookieIsUnauthenticated ==
    ~areq.cookies.present =>
        /\ areq.stage \in {"idle", "isLoggedIn", "error"}
        /\ areq.user = NoUser
        /\ areq.stage = "error" =>
             /\ areq.err = Unauthorized
             /\ areq.ran = <<"isLoggedIn">>

NoCookieRejected ==
    /\ ~areq.cookies.present
    /\ areq.stage = "error"
    /\ areq.err.statusCode = 401
    /\ areq.rest # <<>>

(* C2: every verification failure (bad signature, expired, malformed, or a  *)
(* falsy result) ends the request with the one 401 error of a missing       *)
(* cookie, with no claim attached.                                          *)
VerificationFailed(token) ==
    /\ token.present
    /\ \/ token.kind \in {"malformed", "badSignature", "expired"}
       \/ ~token.payload.truthy

VerificationFailureIsUnauthenticated ==
    (VerificationFailed(areq.cookies) /\ areq.stage # "isLoggedIn") =>
        /\ areq.stage = "error"
        /\ areq.err = Unauthorized
        /\ areq.user = NoUser

(* C3: with a verified claim, authorizeRoles(...roles) ends the request     *)
(* with the 403 error when the claim's role is not among roles, and then    *)
(* nothing after it runs; otherwise it passes the request on unchanged.     *)
RoleOutsideSetIsForbidden ==
    Ran("authorizeRoles") =>
        /\ areq.user = UserOf(areq.cookies.payload)
        /\ IF areq.user.role \notin areq.roles
             THEN /\ areq.stage = "error"
                  /\ areq.err = Forbidden("You do not have permission to view this route")
                  /\ LastRan = "authorizeRoles"
                  /\ ~Ran("handler")
             ELSE /\ ~(areq.stage = "error" /\ LastRan = "authorizeRoles")
                  /\ areq.stage = "error" \/ areq.err = NoErr

RoleRejected ==
    /\ areq.stage = "error"
    /\ areq.user.set
    /\ areq.user.role = "ADMIN"
    /\ areq.roles = {"LEARNER"}
    /\ areq.err.statusCode = 403
    /\ LastRan = "authorizeRoles"

(* C4: authorizeSubscribers admits the request exactly when the claim's     *)
(* role is ADMIN or its subscription status is active; otherwise the        *)
(* outcome is the 403 error.                                                *)
SubscriberOrAdminAdmitted ==
    Ran("authorizeSubscribers") =>
        LET rejected == areq.stage = "error" /\ LastRan = "authorizeSubscribers" IN
        /\ ~rejected <=> (areq.user.role = "ADMIN" \/ areq.user.status = "active")
        /\ rejected => areq.err = Forbidden("Please subscribe to access this route.")
        /\ ~rejected => areq.stage \in {"handler", "done"}

AdminWithoutSubscriptionAdmitted ==
    /\ Ran("authorizeSubscribers")
    /\ areq.stage = "done"
    /\ areq.user.role = "ADMIN"
    /\ areq.user.status # "active"

----------------------------------------------------------------------------
(* Properties of the course workflow (Spec, SpecUpload, SpecLecture)        *)

LectureIdsOf(lectures) == {lectures[i].id : i \in 1 .. Len(lectures)}

(* Slot r's step is the first of a new request for handler op.              *)
Begins(r, op) ==
    /\ reqs[r].pc \in {"idle", "done"}
    /\ reqs'[r] # reqs[r]
    /\ reqs'[r].op = op

(* C5: after every successful course mutation the stored numberOfLectures   *)
(* equals the length of the stored lecture list.                            *)
LectureCountMatchesList ==
    \A c \in CourseIds :
        courses[c].exists => courses[c].numberOfLectures = Len(courses[c].lectures)

(* C6: when createCourse's upload fails, the request ends with the draft    *)
(* course still stored, the staging directory empty and the UploadFailed    *)
(* (400) response.                                                          *)
FailedUploadKeepsDraftAndEmptiesStaging ==
    [][\A r \in Slots :
          (/\ reqs[r].op = "createCourse"
           /\ reqs[r].pc \in {"readdir", "unlink"}
           /\ reqs'[r].pc = "done")
          => /\ courses'[reqs[r].id].exists
             /\ uploads' = {}
             /\ reqs'[r].res = Err(UploadFailed)]_vars

(* C7: createCourse with one of title, description, category, createdBy     *)
(* missing ends at once with the 400 error; no course is stored and no      *)
(* upload is started.                                                       *)
MissingFieldStoresNothing ==
    [][\A r \in Slots :
          (Begins(r, "createCourse") /\ reqs'[r].fields # CreateFields)
          => /\ reqs'[r].pc = "done"
             /\ reqs'[r].res = Err(ApiError("All fields are required", 400))
             /\ courses' = courses
             /\ nextCourseId' = nextCourseId
             /\ pendingRm' = pendingRm]_vars

MissingFieldRejected ==
    \E r \in Slots :
        /\ reqs[r].op = "createCourse"
        /\ reqs[r].pc = "done"
        /\ reqs[r].fields = CreateFields \ {"createdBy"}
        /\ reqs[r].res.status = 400
        /\ uploads # {}
        /\ \A c \in CourseIds : ~courses[c].exists

(* C8: a successful add of a lecture to a stored course followed by a       *)
(* successful remove of that lecture leaves the lecture list as it was      *)
(* before the add (the other lectures unchanged, the length restored) with  *)
(* numberOfLectures equal to that length.  At the add's persist the stored  *)
(* course with the lecture removed again is the course before the add, and  *)
(* the remove's persist stores exactly that removal.                        *)
RemoveFrom(course, lectureId) ==
    LET idx == findIndex(course.lectures, lectureId) IN
    [found |-> idx # 0,
     course |-> IF idx = 0 THEN course
                ELSE save(course, spliceLecture(course, idx),
                          {"lectures", "numberOfLectures"})]

AddThenRemoveRestoresList ==
    [][\A r \in Slots :
          /\ (/\ reqs[r].op = "addLecture"
              /\ reqs[r].pc = "save"
              /\ reqs'[r].pc = "done")
             => LET before == courses[reqs[r].id]
                    after == RemoveFrom(courses'[reqs[r].id],
                                        IdToString(reqs'[r].lec.id))
                IN /\ reqs'[r].res = Ok(200)
                   /\ Len(courses'[reqs[r].id].lectures) = Len(before.lectures) + 1
                   /\ after.found
                   /\ after.course.lectures = before.lectures
                   /\ after.course.numberOfLectures = Len(before.lectures)
          /\ (/\ reqs[r].op = "removeLecture"
              /\ reqs[r].pc = "save"
              /\ reqs'[r].pc = "done")
             => /\ reqs'[r].res = Ok(200)
                /\ courses'[reqs[r].id] =
                       RemoveFrom(courses[reqs[r].id], reqs[r].lectureId).course
                /\ Len(courses'[reqs[r].id].lectures) =
                       Len(courses[reqs[r].id].lectures) - 1
                /\ courses'[reqs[r].id].numberOfLectures =
                       Len(courses'[reqs[r].id].lectures)]_vars

AddedLectureRemoved ==
    \E r \in Slots :
        /\ reqs[r].op = "removeLecture"
        /\ reqs[r].pc = "done"
        /\ reqs[r].res = Ok(200)
        /\ reqs[r].lec.asset = Uploaded
        /\ reqs[r].lectureId = IdToString(reqs[r].lec.id)
        /\ courses[reqs[r].id].lectures # <<>>
        /\ reqs[r].lec.id \notin LectureIdsOf(courses[reqs[r].id].lectures)
        /\ courses[reqs[r].id].numberOfLectures = Len(courses[reqs[r].id].lectures)

(* C9: removeLectureFromCourse for a stored course and a lecture id that is *)
(* not in its lecture list ends at once with the 404 error: the stored      *)
(* courses are unchanged and no destroy is sent to the asset host.          *)
UnknownLectureChangesNothing ==
    [][\A r \in Slots :
          (/\ Begins(r, "removeLecture")
           /\ reqs'[r].id # 0
           /\ reqs'[r].lectureId # NoString
           /\ courses[reqs'[r].id].exists
           /\ \A i \in 1 .. Len(courses[reqs'[r].id].lectures) :
                 IdToString(courses[reqs'[r].id].lectures[i].id) # reqs'[r].lectureId)
          => /\ reqs'[r].pc = "done"
             /\ reqs'[r].res = Err(ApiError("Lecture does not exist.", 404))
             /\ courses' = courses]_vars

UnknownLectureRejected ==
    \E r \in Slots :
        /\ reqs[r].op = "removeLecture"
        /\ reqs[r].pc = "done"
        /\ reqs[r].res = Err(ApiError("Lecture does not exist.", 404))
        /\ reqs[r].lectureId \in {IdToString(i) : i \in LectureIds}
        /\ courses[reqs[r].id].lectures # <<>>

=============================================================================
